---------------------------- MODULE Spec2Model ----------------------------
(***************************************************************************)
(* A model of the asterisk-ami crate: the line framer and response         *)
(* classifier (response.rs: ResponseBuilder::add_line, line_to_tag) and    *)
(* the connection actor with its handle (lib.rs: AmiConnection).           *)
(*                                                                         *)
(* Text is modelled at the level of characters: a line is a sequence of    *)
(* one-character strings, so that trimming, the tag pattern and the        *)
(* case-insensitive comparisons are computed the way the code computes     *)
(* them.                                                                   *)
(***************************************************************************)
EXTENDS Integers, Sequences, FiniteSets, TLC

(***************************************************************************)
(* Bounds of the model.                                                    *)
(***************************************************************************)
\* lines the actor reads from the socket in one run
MaxLines == 3
\* callers of send(); each calls send once, command id = caller id
NumCallers == 2
\* tasks that may hold an event subscription
NumSubs == 1
\* bytes of a line a cancelled read_line may already have consumed
MaxLost == 1
\* lines the actor reads in one run of the specification with fairness
MaxLiveLines == 2
\* lines fed to a stand-alone ResponseBuilder (specification ClsSpec)
MaxClsLines == 6
\* tags of a packet that is serialized and framed again (specification RtSpec)
MaxTags == 2
\* extra spaces put after the colon of a serialized line
MaxPad == 1

(***************************************************************************)
(* Program constants.                                                      *)
(***************************************************************************)
\* mpsc::channel::<Command>(32)
CmdCapacity == 32
\* broadcast::channel::<Option<Packet>>(32)
EventCapacity == 32

(***************************************************************************)
(* Characters and strings.                                                 *)
(***************************************************************************)
Upper == <<"A","B","C","D","E","F","G","H","I","J","K","L","M",
           "N","O","P","Q","R","S","T","U","V","W","X","Y","Z">>

LowerOf == <<"a","b","c","d","e","f","g","h","i","j","k","l","m",
             "n","o","p","q","r","s","t","u","v","w","x","y","z">>

\* u8::to_ascii_lowercase
Lower(c) ==
  IF \E i \in 1..Len(Upper) : Upper[i] = c
    THEN LowerOf[CHOOSE i \in 1..Len(Upper) : Upper[i] = c]
    ELSE c

\* str::eq_ignore_ascii_case
eq_ignore_ascii_case(a, b) ==
  /\ Len(a) = Len(b)
  /\ \A i \in 1..Len(a) : Lower(a[i]) = Lower(b[i])

Whitespace == {" ", "\t", "\r", "\n"}

\* str::trim: leading and trailing whitespace removed
Trim(s) ==
  LET keep == {i \in 1..Len(s) : s[i] \notin Whitespace}
  IN IF keep = {} THEN <<>>
     ELSE LET lo == CHOOSE i \in keep : \A j \in keep : i <= j
              hi == CHOOSE i \in keep : \A j \in keep : j <= i
          IN SubSeq(s, lo, hi)

CRLF == <<"\r", "\n">>

Event_key == <<"E","v","e","n","t">>
EventList_key == <<"E","v","e","n","t","L","i","s","t">>
start_value == <<"s","t","a","r","t">>
Complete_value == <<"C","o","m","p","l","e","t","e">>

(***************************************************************************)
(* Tags and packets (lib.rs).                                              *)
(***************************************************************************)
Tag(key, value) == [key |-> key, value |-> value]

\* find_tag: the value of the first tag whose key matches, as a sequence of
\* at most one element (Option<&String>)
find_tag(pkt, key) ==
  LET hits == {i \in 1..Len(pkt) : eq_ignore_ascii_case(pkt[i].key, key)}
  IN IF hits = {} THEN <<>>
     ELSE <<pkt[CHOOSE i \in hits : \A j \in hits : i <= j].value>>

RECURSIVE JoinCRLF(_)
JoinCRLF(strs) ==
  IF strs = <<>> THEN <<>>
  ELSE IF Len(strs) = 1 THEN strs[1]
  ELSE strs[1] \o CRLF \o JoinCRLF(Tail(strs))

\* packet_to_string: "key: value" per tag, joined by "\r\n"
packet_to_string(pkt) ==
  JoinCRLF([i \in 1..Len(pkt) |-> pkt[i].key \o <<":", " ">> \o pkt[i].value])

(***************************************************************************)
(* The line framer and the response classifier (response.rs).              *)
(***************************************************************************)
\* faulty variant: a line without colon becomes a tag with an empty value
line_to_tag_lenient(line) ==
  LET colons == {i \in 1..Len(line) : line[i] = ":"}
  IN IF colons = {} THEN <<[key |-> line, value |-> <<>>]>>
     ELSE LET c == CHOOSE i \in colons : \A j \in colons : i <= j
              rest == {i \in (c+1)..Len(line) : line[i] # " "}
              v == IF rest = {} THEN Len(line) + 1
                   ELSE CHOOSE i \in rest : \A j \in rest : i <= j
          IN <<[key |-> SubSeq(line, 1, c - 1),
                value |-> SubSeq(line, v, Len(line))]>>

\* faulty variant: the spaces after the colon are kept in the value
line_to_tag_keeping_spaces(line) ==
  LET colons == {i \in 1..Len(line) : line[i] = ":"}
  IN IF colons = {} THEN <<>>
     ELSE LET c == CHOOSE i \in colons : \A j \in colons : i <= j
          IN <<[key |-> SubSeq(line, 1, c - 1),
                value |-> SubSeq(line, c + 1, Len(line))]>>

\* TAG_PATTERN ^([^:]*): *(.*)$ : the key is everything before the first
\* colon, the value what follows the colon and the spaces after it.
\* Option<Tag> as a sequence of at most one element.
line_to_tag(line) ==
  LET colons == {i \in 1..Len(line) : line[i] = ":"}
  IN IF colons = {} THEN <<>>
     ELSE LET c == CHOOSE i \in colons : \A j \in colons : i <= j
              rest == {i \in (c+1)..Len(line) : line[i] # " "}
              v == IF rest = {} THEN Len(line) + 1
                   ELSE CHOOSE i \in rest : \A j \in rest : i <= j
          IN <<Tag(SubSeq(line, 1, c - 1), SubSeq(line, v, Len(line)))>>

\* ResponseBuilder::new
NewBuilder ==
  [response |-> <<>>, in_packet |-> <<>>, in_response_sequence |-> FALSE]

NoResponse == [kind |-> "None", pkts |-> <<>>]
EventOf(pkt) == [kind |-> "Event", pkts |-> <<pkt>>]
CommandResponseOf(list) == [kind |-> "CommandResponse", pkts |-> list]

\* faulty variant: a packet without tags passes for an event
IsEventPacket_or_empty(pkt) ==
  IF pkt = <<>> THEN TRUE ELSE eq_ignore_ascii_case(pkt[1].key, Event_key)

\* the packet is event-shaped: non-empty, first key is "Event"
IsEventPacket(pkt) ==
  /\ pkt # <<>>
  /\ eq_ignore_ascii_case(pkt[1].key, Event_key)

\* faulty variant: a sequence is open until EventList: Complete is seen
SequenceAfter_until_complete(open, pkt) ==
  LET event_list == find_tag(pkt, EventList_key)
  IN IF event_list = <<>> THEN TRUE
     ELSE ~eq_ignore_ascii_case(event_list[1], Complete_value)

\* in_response_sequence after the EventList tag of the packet was inspected
SequenceAfter(open, pkt) ==
  LET event_list == find_tag(pkt, EventList_key)
  IN IF event_list = <<>> THEN open
     ELSE IF eq_ignore_ascii_case(event_list[1], start_value) THEN TRUE
     ELSE IF eq_ignore_ascii_case(event_list[1], Complete_value) THEN FALSE
     ELSE open

\* faulty variant: the open sequence is not looked at
EmitsEvent_ignoring_sequence(rb) == IsEventPacket(rb.in_packet)

\* the test of lines 40-42: the completed packet is emitted as an Event
EmitsEvent(rb) ==
  ~rb.in_response_sequence /\ IsEventPacket(rb.in_packet)

\* faulty variant: the buffer is not cleared after it was handed out
Cleared_kept(resp) == resp

\* self.response.clear() of line 61, applied to the buffer
Cleared(resp) == <<>>

\* faulty variant: the event is also pushed to the sequence buffer
AfterEvent_buffered(rb) ==
  [rb EXCEPT !.response = Append(@, rb.in_packet), !.in_packet = <<>>]

\* the builder after its in-progress packet was handed out as an Event
\* (lines 44-45)
AfterEvent(rb) == [rb EXCEPT !.in_packet = <<>>]

\* add_line on a blank line: the in-progress packet is complete
CompletePacket(rb) ==
  IF EmitsEvent(rb)
    THEN [rb  |-> AfterEvent(rb),
          out |-> EventOf(rb.in_packet)]
    ELSE LET resp == Append(rb.response, rb.in_packet)
             open == SequenceAfter(rb.in_response_sequence, rb.in_packet)
         IN IF ~open
              THEN [rb  |-> [response |-> Cleared(resp), in_packet |-> <<>>,
                             in_response_sequence |-> open],
                    out |-> CommandResponseOf(resp)]
              ELSE [rb  |-> [response |-> resp, in_packet |-> <<>>,
                             in_response_sequence |-> open],
                    out |-> NoResponse]

\* add_line on a non-blank line: a tag is pushed when the line matches
PushLine(rb, line) ==
  LET tag == line_to_tag(line)
  IN [rb  |-> IF tag = <<>> THEN rb
              ELSE [rb EXCEPT !.in_packet = Append(@, tag[1])],
      out |-> NoResponse]

\* ResponseBuilder::add_line: the builder afterwards and the value returned
add_line(rb, line) ==
  IF line = <<>> THEN CompletePacket(rb) ELSE PushLine(rb, line)


(***************************************************************************)
(* The connection actor and its handle (lib.rs).                           *)
(***************************************************************************)
VARIABLES
  pc,                \* where handle_server_connection stands
  current_command,   \* the command in flight: a caller id, 0 for None
  response_builder,  \* the actor's ResponseBuilder
  pub_pkt,           \* the event publish_event is about to send, if any
  cmdq,              \* command channel: the queued commands, oldest first
  cmd_open,          \* the command channel still accepts commands
  receivers,         \* the live broadcast receivers
  inbox,             \* per receiver: the items it has not received yet
  transport,         \* the socket: "up", or "down" (closed or broken)
  pending,           \* a line partly consumed: what is left of it on the
                     \* wire (rest) and the whole line as it was sent (sent)
  cst,               \* per caller: "idle", "waiting", "abandoned", "done"
  result,            \* per caller: what send() returned
  nread,             \* lines the server has sent so far
  meta,              \* history: per packet of response, how it got there
  hist,              \* history of the run
  cls,               \* a stand-alone ResponseBuilder and its history
  rt                 \* a packet serialized, sent over a wire and framed again

vars == <<pc, current_command, response_builder, pub_pkt, cmdq, cmd_open,
          receivers, inbox, transport, pending, cst, result, nread, meta,
          hist, cls, rt>>

actor_vars == <<pc, current_command, response_builder, pub_pkt, cmdq,
                cmd_open, receivers, inbox, transport, pending, cst, result,
                nread, meta, hist>>

Callers == 1..NumCallers
Subs == 1..NumSubs

\* the lines the server sends, without their terminator
BlankLine == <<>>
EventLine == Event_key \o <<":", " ", "A">>
StartLine == EventList_key \o <<":", " ">> \o start_value
CompleteLine == EventList_key \o <<":", " ">> \o Complete_value

ActorLines == {BlankLine, EventLine, StartLine, CompleteLine}

\* the packet caller c sends
CommandPacket(c) ==
  <<Tag(<<"A","c","t","i","o","n">>, <<"P","i","n","g">>)>>

\* Option<Vec<Packet>> returned by send, "Pending" while it has not returned
Unresolved == [kind |-> "Pending", pkts |-> <<>>]
NoReply == [kind |-> "None", pkts |-> <<>>]
SomeReply(list) == [kind |-> "Some", pkts |-> list]

\* no packet has been serialized yet
RtIdle ==
  [phase |-> "idle", pkt |-> <<>>, pad |-> 0, wire |-> <<>>,
   rb |-> NewBuilder, out |-> <<>>]

NewHist ==
  [written      |-> <<>>,   \* commands written to the socket, in order
   chunks       |-> <<>>,   \* the bytes written for them
   accepted     |-> <<>>,   \* commands in the order they entered the queue
   delivered    |-> <<>>,   \* CommandResponses handed to a reply slot
   published    |-> 0,      \* calls of publish_event with an Event
   discards     |-> 0,      \* CommandResponses dropped, no command in flight
   slot_failed  |-> {},     \* commands whose reply slot refused the reply
   term_command |-> 0,      \* the command in flight when the loop exited
   term_open    |-> FALSE,  \* a reply sequence was open when the loop exited
   wire_builder |-> NewBuilder, \* a ResponseBuilder fed the lines as sent
   wire_events  |-> 0,      \* the Events that builder has returned
   eos          |-> {}]     \* subscribers that have received the None item

Init ==
  /\ pc = "loop"
  /\ current_command = 0
  /\ response_builder = NewBuilder
  /\ pub_pkt = <<>>
  /\ cmdq = <<>>
  /\ cmd_open = TRUE
  /\ receivers = {}
  /\ inbox = [s \in Subs |-> <<>>]
  /\ transport = "up"
  /\ pending = <<>>
  /\ cst = [c \in Callers |-> "idle"]
  /\ result = [c \in Callers |-> Unresolved]
  /\ nread = 0
  /\ meta = <<>>
  /\ hist = NewHist
  /\ cls = [rb |-> NewBuilder, n |-> 0, trace |-> <<>>, quiet |-> TRUE,
            last |-> <<>>, out |-> NoResponse]
  /\ rt = RtIdle

\* the last n elements of s (all of s when it has fewer)
LastN(s, n) == IF n >= Len(s) THEN s ELSE SubSeq(s, Len(s) - n + 1, Len(s))

\* the packet is shaped like an event: non-empty, first key "Event" in any case
EventShaped(pkt) ==
  /\ pkt # <<>>
  /\ Len(pkt[1].key) = 5
  /\ \A i \in 1..5 : pkt[1].key[i] \in {Event_key[i], Lower(Event_key[i]),
                                         <<"E","V","E","N","T">>[i]}

\* History of the packets in response_builder.response, kept beside it: the
\* command in flight when the packet was buffered, whether the packet was
\* already part of a CommandResponse that was dropped, and whether it was an
\* event-shaped packet completed while no sequence was open.
MetaAfter(rb, r, blank) ==
  LET entry == [inflight |-> current_command,
                dropped  |-> FALSE,
                event    |-> ~rb.in_response_sequence
                               /\ EventShaped(rb.in_packet)]
      grown == IF ~blank \/ r.out.kind = "Event" THEN meta
               ELSE Append(meta, entry)
      n     == Len(r.out.pkts)
      drop  == r.out.kind = "CommandResponse" /\ current_command = 0
      mark  == [i \in 1..Len(grown) |->
                  IF drop /\ i > Len(grown) - n
                    THEN [grown[i] EXCEPT !.dropped = TRUE]
                    ELSE grown[i]]
  IN [taken |-> LastN(grown, n), kept |-> LastN(mark, Len(r.rb.response))]

\* faulty variant: the item is not stored for the receiver
Enqueue_dropped(box, item) == box

\* broadcast::Sender::send to one receiver: the oldest item is overwritten
\* when the receiver lags by the capacity of the channel
Enqueue(box, item) ==
  IF Len(box) < EventCapacity THEN Append(box, item)
  ELSE Append(Tail(box), item)

\* faulty variant: the newest command is taken first
NextCommand_newest(q) == q[Len(q)]

\* the command the recv() branch takes from the channel
NextCommand(q) == Head(q)

\* faulty variant: the recv() branch is always part of the select!
MayDequeue_always == TRUE

\* the recv() branch is part of the select! only when no command is in flight
MayDequeue == current_command = 0

\* what cmd.resp.send(cr) does when the caller has dropped its receiver:
\* the loop is left
SlotFailure == "shut"

\* what the actor does with the value add_line returned (lines 134-154),
\* up to the receiver_count() test of publish_event
Dispatch(r, blank, sent) ==
  LET cmd == current_command
      m == MetaAfter(response_builder, r, blank)
      w == add_line(hist.wire_builder, sent)
      h == [hist EXCEPT !.wire_builder = w.rb,
                        !.wire_events = IF w.out.kind = "Event"
                                          THEN @ + 1 ELSE @]
  IN
  /\ response_builder' = r.rb
  /\ meta' = m.kept
  /\ CASE r.out.kind = "None" ->
            /\ pc' = "loop"
            /\ hist' = h
            /\ UNCHANGED <<current_command, pub_pkt, cst, result>>
       [] r.out.kind = "Event" ->
            /\ hist' = [h EXCEPT !.published = @ + 1]
            /\ IF receivers # {}
                 THEN pc' = "pub_send" /\ pub_pkt' = <<r.out.pkts[1]>>
                 ELSE pc' = "loop" /\ pub_pkt' = <<>>
            /\ UNCHANGED <<current_command, cst, result>>
       [] r.out.kind = "CommandResponse" ->
            /\ pub_pkt' = <<>>
            /\ IF cmd = 0
                 THEN /\ pc' = "loop"
                      /\ hist' = [h EXCEPT !.discards = @ + 1]
                      /\ UNCHANGED <<current_command, cst, result>>
                 ELSE /\ current_command' = 0
                      /\ IF cst[cmd] = "waiting"
                           THEN /\ pc' = "loop"
                                /\ result' = [result EXCEPT
                                                ![cmd] = SomeReply(r.out.pkts)]
                                /\ cst' = [cst EXCEPT ![cmd] = "done"]
                                /\ hist' = [h EXCEPT !.delivered =
                                     Append(@, [cmd |-> cmd, meta |-> m.taken,
                                                after |-> hist.discards])]
                           ELSE /\ pc' = SlotFailure
                                /\ hist' = [h EXCEPT !.slot_failed =
                                              @ \cup {cmd}]
                                /\ UNCHANGED <<cst, result>>

\* read_line returned Ok(n), n > 0: the line is trimmed and framed
\* (lines 87-101 and 116-130, then 134-156); the server sends at most max lines
ReadLineUpTo(max) ==
  /\ pc = "loop"
  /\ \/ /\ pending # <<>>
        /\ pending' = <<>>
        /\ nread' = nread
        /\ Dispatch(add_line(response_builder, Trim(pending[1].rest)),
                    Trim(pending[1].rest) = <<>>, Trim(pending[1].sent))
     \/ /\ pending = <<>>
        /\ transport = "up"
        /\ nread < max
        /\ \E l \in ActorLines :
             /\ nread' = nread + 1
             /\ Dispatch(add_line(response_builder, Trim(l \o CRLF)),
                         Trim(l \o CRLF) = <<>>, Trim(l \o CRLF))
        /\ UNCHANGED pending
  /\ UNCHANGED <<cmdq, cmd_open, receivers, inbox, transport, cls, rt>>

ReadLine == ReadLineUpTo(MaxLines)

\* read_line returned Err, or Ok(0) once the wire is empty: break
ReadEnd ==
  /\ pc = "loop"
  /\ transport = "down"
  /\ pc' = "shut"
  /\ UNCHANGED <<current_command, response_builder, pub_pkt, cmdq, cmd_open,
                 receivers, inbox, transport, pending, cst, result, nread,
                 meta, hist, cls, rt>>

\* what a read_line future dropped by select! leaves on the wire: nothing
\* was consumed, or the first bytes of the next line are gone
TornRead(max) ==
  \/ UNCHANGED <<pending, nread>>
  \/ /\ pending = <<>>
     /\ transport = "up"
     /\ nread < max
     /\ \E l \in ActorLines, k \in 1..MaxLost :
          /\ k < Len(l \o CRLF)
          /\ pending' = <<[rest |-> SubSeq(l \o CRLF, k + 1, Len(l \o CRLF)),
                            sent |-> l \o CRLF]>>
     /\ nread' = nread + 1

\* the recv() branch of the first select! (lines 103-112)
DequeueUpTo(max) ==
  /\ pc = "loop"
  /\ MayDequeue
  /\ cmdq # <<>>
  /\ LET c == NextCommand(cmdq)
         chunk == packet_to_string(CommandPacket(c)) \o CRLF \o CRLF
     IN /\ cmdq' = SelectSeq(cmdq, LAMBDA x : x # c)
        /\ current_command' = c
        /\ hist' = [hist EXCEPT !.written = Append(@, c),
                                !.chunks = Append(@, chunk)]
  /\ \/ pc' = "loop"
     \/ transport = "down" /\ pc' = "shut"
  /\ TornRead(max)
  /\ UNCHANGED <<response_builder, pub_pkt, cmd_open, receivers, inbox,
                 transport, cst, result, meta, cls, rt>>

Dequeue == DequeueUpTo(MaxLines)

\* where the loop goes when broadcast send fails for want of a receiver
PublishFailure == "shut"

\* publish_event after receiver_count() > 0: broadcast send (lines 173-176)
PublishSend ==
  /\ pc = "pub_send"
  /\ pub_pkt' = <<>>
  /\ IF receivers = {}
       THEN pc' = PublishFailure /\ UNCHANGED inbox
       ELSE /\ pc' = "loop"
            /\ inbox' = [s \in Subs |->
                           IF s \in receivers
                             THEN Enqueue(inbox[s],
                                          <<[pkt |-> pub_pkt[1],
                                             seq |-> hist.published]>>)
                             ELSE inbox[s]]
  /\ UNCHANGED <<current_command, response_builder, cmdq, cmd_open,
                 receivers, transport, pending, cst, result, nread, meta,
                 hist, cls, rt>>

\* what the caller of the command in flight gets when the loop has exited:
\* cmd.resp.send(vec![]), so that rx.await.ok() is Some(vec![])
TerminationReply == SomeReply(<<>>)

\* faulty variant: the queued commands are kept alive, never dropped
QueuedAtExit_none(q) == {}

\* the commands dropped with command_channel_rx when the function returns
QueuedAtExit(q) == {q[i] : i \in 1..Len(q)}

\* lines 160-165 and the return: the channel is closed, the command in
\* flight is answered, the receiver and the commands still queued are dropped
Finish ==
  /\ pc' = "done"
  /\ cmd_open' = FALSE
  /\ cmdq' = <<>>
  /\ current_command' = 0
  /\ hist' = [hist EXCEPT
                !.term_command = current_command,
                !.term_open = response_builder.in_response_sequence]
  /\ LET queued == QueuedAtExit(cmdq)
         waits(c) == cst[c] = "waiting"
     IN /\ result' = [c \in Callers |->
                        IF c = current_command /\ waits(c)
                          THEN TerminationReply
                        ELSE IF c \in queued /\ waits(c) THEN NoReply
                        ELSE result[c]]
        /\ cst' = [c \in Callers |->
                     IF (c = current_command \/ c \in queued) /\ waits(c)
                       THEN "done" ELSE cst[c]]

\* line 159: publish_event(None), the receiver_count() test
Shutdown ==
  /\ pc = "shut"
  /\ IF receivers # {}
       THEN /\ pc' = "shut_send"
            /\ UNCHANGED <<current_command, cmdq, cmd_open, cst, result, hist>>
       ELSE Finish
  /\ UNCHANGED <<response_builder, pub_pkt, receivers, inbox, transport,
                 pending, nread, meta, cls, rt>>

\* line 159: publish_event(None), the broadcast send; its result is ignored
ShutdownSend ==
  /\ pc = "shut_send"
  /\ inbox' = [s \in Subs |->
                 IF s \in receivers THEN Enqueue(inbox[s], <<>>)
                 ELSE inbox[s]]
  /\ Finish
  /\ UNCHANGED <<response_builder, pub_pkt, receivers, transport, pending,
                 nread, meta, cls, rt>>

\* AmiConnection::send by caller c; the callers call in the order of their ids
Send(c) ==
  /\ cst[c] = "idle"
  /\ IF c = 1 THEN TRUE ELSE cst[c - 1] # "idle"
  /\ IF cmd_open
       THEN /\ Len(cmdq) < CmdCapacity
            /\ cmdq' = Append(cmdq, c)
            /\ cst' = [cst EXCEPT ![c] = "waiting"]
            /\ hist' = [hist EXCEPT !.accepted = Append(@, c)]
            /\ UNCHANGED result
       ELSE /\ cst' = [cst EXCEPT ![c] = "done"]
            /\ result' = [result EXCEPT ![c] = NoReply]
            /\ UNCHANGED <<cmdq, hist>>
  /\ UNCHANGED <<pc, current_command, response_builder, pub_pkt, cmd_open,
                 receivers, inbox, transport, pending, nread, meta, cls, rt>>

\* the caller drops the future of send: its oneshot receiver is dropped
Abandon(c) ==
  /\ cst[c] = "waiting"
  /\ cst' = [cst EXCEPT ![c] = "abandoned"]
  /\ UNCHANGED <<pc, current_command, response_builder, pub_pkt, cmdq,
                 cmd_open, receivers, inbox, transport, pending, result,
                 nread, meta, hist, cls, rt>>

\* AmiConnection::events; the subscribers come in the order of their ids
Subscribe(s) ==
  /\ s \notin receivers
  /\ IF s = 1 THEN TRUE ELSE (s - 1) \in receivers
  /\ receivers' = receivers \cup {s}
  /\ inbox' = [inbox EXCEPT ![s] = <<>>]
  /\ UNCHANGED <<pc, current_command, response_builder, pub_pkt, cmdq,
                 cmd_open, transport, pending, cst, result, nread, meta,
                 hist, cls, rt>>

\* a broadcast receiver is dropped
Unsubscribe(s) ==
  /\ s \in receivers
  /\ receivers' = receivers \ {s}
  /\ inbox' = [inbox EXCEPT ![s] = <<>>]
  /\ hist' = [hist EXCEPT !.eos = @ \ {s}]
  /\ UNCHANGED <<pc, current_command, response_builder, pub_pkt, cmdq,
                 cmd_open, transport, pending, cst, result, nread, meta,
                 cls, rt>>

\* broadcast::Receiver::recv: the oldest item not yet received
SubRecv(s) ==
  /\ s \in receivers
  /\ inbox[s] # <<>>
  /\ inbox' = [inbox EXCEPT ![s] = Tail(@)]
  /\ hist' = IF Head(inbox[s]) = <<>>
               THEN [hist EXCEPT !.eos = @ \cup {s}] ELSE hist
  /\ UNCHANGED <<pc, current_command, response_builder, pub_pkt, cmdq,
                 cmd_open, receivers, transport, pending, cst, result,
                 nread, meta, cls, rt>>

\* the server closes the connection, or the connection breaks
TransportDown ==
  /\ transport = "up"
  /\ transport' = "down"
  /\ UNCHANGED <<pc, current_command, response_builder, pub_pkt, cmdq,
                 cmd_open, receivers, inbox, pending, cst, result, nread,
                 meta, hist, cls, rt>>

Actor ==
  \/ ReadLine
  \/ ReadEnd
  \/ Dequeue
  \/ PublishSend
  \/ Shutdown
  \/ ShutdownSend

\* the callers, the subscribers and the server
Environment ==
  \/ \E c \in Callers : Send(c)
  \/ \E c \in Callers : Abandon(c)
  \/ \E s \in Subs : Subscribe(s)
  \/ \E s \in Subs : Unsubscribe(s)
  \/ \E s \in Subs : SubRecv(s)
  \/ TransportDown

Next ==
  \/ Actor
  \/ Environment

Spec == Init /\ [][Next]_vars

\* The actor task is scheduled: a read that has found the socket down returns,
\* and the steps that need no input (the broadcast sends, the shutdown) are
\* taken.
LiveReadLine == ReadLineUpTo(MaxLiveLines)

LiveDequeue == DequeueUpTo(MaxLiveLines)

LiveNext ==
  \/ LiveReadLine
  \/ ReadEnd
  \/ LiveDequeue
  \/ PublishSend
  \/ Shutdown
  \/ ShutdownSend
  \/ Environment

LiveSpec ==
  /\ Init
  /\ [][LiveNext]_vars
  /\ WF_vars(ReadEnd)
  /\ WF_vars(PublishSend)
  /\ WF_vars(Shutdown)
  /\ WF_vars(ShutdownSend)

\* As LiveSpec, with subscribers that go on receiving while they hold a
\* receiver.
SubLiveSpec ==
  /\ Init
  /\ [][LiveNext]_vars
  /\ WF_vars(ReadEnd)
  /\ WF_vars(PublishSend)
  /\ WF_vars(Shutdown)
  /\ WF_vars(ShutdownSend)
  /\ \A s \in Subs : WF_vars(SubRecv(s))

(***************************************************************************)
(* A ResponseBuilder on its own, fed line by line (specification ClsSpec). *)
(***************************************************************************)
ResponseLine == <<"R","e","s","p","o","n","s","e",":"," ","S">>
LowerEventLine == <<"e","v","e","n","t",":","B">>
UpperStartLine == EventList_key \o <<":", " ", " ", "S","T","A","R","T">>
LowerCompleteLine ==
  <<"e","v","e","n","t","l","i","s","t",":"," ","c","o","m","p","l","e","t","e">>
NoiseLine == <<"n","o","i","s","e">>

\* lines as add_line gets them: trimmed, without terminator
ClsLines == {BlankLine, ResponseLine, LowerEventLine, UpperStartLine,
             LowerCompleteLine, NoiseLine}

\* one call of add_line; trace gets an entry per completed packet: the
\* packet, what add_line returned, whether a sequence was open before and
\* the buffer afterwards; last and out are the line and the value returned
\* of the latest call
ClsAddLine ==
  /\ cls.n < MaxClsLines
  /\ \E l \in ClsLines :
       LET r == add_line(cls.rb, l)
       IN cls' = [rb    |-> r.rb,
                  n     |-> cls.n + 1,
                  trace |-> IF l = <<>>
                              THEN Append(cls.trace,
                                     [pkt  |-> cls.rb.in_packet,
                                      out  |-> r.out,
                                      open |-> cls.rb.in_response_sequence,
                                      kept |-> r.rb.response])
                              ELSE cls.trace,
                  quiet |-> cls.quiet /\ (l # <<>> => r.out = NoResponse),
                  last  |-> <<l>>,
                  out   |-> r.out]
  /\ UNCHANGED actor_vars
  /\ UNCHANGED rt

ClsNext == ClsAddLine

ClsSpec == Init /\ [][ClsNext]_vars


(***************************************************************************)
(* A packet serialized as send writes it, then read and framed the way the *)
(* actor reads and frames lines (specification RtSpec).                    *)
(***************************************************************************)
RtKeys == {<<"k">>, <<>>, <<" ", "k">>, <<"a", "\n", "b">>}

RtValues == {<<"v">>, <<>>, <<"v", ":", "w">>, <<"v", " ">>,
             <<"v", "\n", "w">>, <<"\t", "v">>}

RtTags == {Tag(k, v) : k \in RtKeys, v \in RtValues}

RtPackets == UNION {[1..n -> RtTags] : n \in 1..MaxTags}

Spaces(n) == [i \in 1..n |-> " "]

\* the text with n more spaces after the first colon of each of its lines
RECURSIVE PadText(_, _, _)
PadText(s, n, seen) ==
  IF s = <<>> THEN <<>>
  ELSE IF Head(s) = "\n" THEN <<"\n">> \o PadText(Tail(s), n, FALSE)
  ELSE IF Head(s) = ":" /\ ~seen
         THEN <<":">> \o Spaces(n) \o PadText(Tail(s), n, TRUE)
  ELSE <<Head(s)>> \o PadText(Tail(s), n, seen)

\* read_line: the bytes up to and including the first line feed, all of them
\* when there is none
read_line(wire) ==
  LET feeds == {i \in 1..Len(wire) : wire[i] = "\n"}
  IN IF feeds = {} THEN wire
     ELSE SubSeq(wire, 1, CHOOSE i \in feeds : \A j \in feeds : i <= j)

\* the chunk of line 105 for a packet, its lines padded after the colon
RtBegin ==
  /\ rt.phase = "idle"
  /\ \E pkt \in RtPackets, pad \in 0..MaxPad :
       rt' = [phase |-> "run", pkt |-> pkt, pad |-> pad,
              wire  |-> PadText(packet_to_string(pkt), pad, FALSE)
                          \o CRLF \o CRLF,
              rb    |-> NewBuilder, out |-> <<>>]
  /\ UNCHANGED actor_vars
  /\ UNCHANGED cls

\* one line is read, trimmed and framed (lines 87 and 98); out collects the
\* packets completed by a blank line
RtReadLine ==
  /\ rt.phase = "run"
  /\ LET raw  == read_line(rt.wire)
         line == Trim(raw)
         rest == SubSeq(rt.wire, Len(raw) + 1, Len(rt.wire))
         r    == add_line(rt.rb, line)
     IN rt' = [rt EXCEPT
                 !.phase = IF rest = <<>> THEN "done" ELSE "run",
                 !.wire  = rest,
                 !.rb    = r.rb,
                 !.out   = IF line = <<>> THEN Append(@, rt.rb.in_packet)
                           ELSE @]
  /\ UNCHANGED actor_vars
  /\ UNCHANGED cls

RtNext ==
  \/ RtBegin
  \/ RtReadLine

RtSpec == Init /\ [][RtNext]_vars

(***************************************************************************)
(* Properties.                                                             *)
(***************************************************************************)
DeliveredCommands ==
  {hist.delivered[i].cmd : i \in 1..Len(hist.delivered)}

\* the commands written whose flight has not ended
InFlight ==
  IF pc = "done" THEN {}
  ELSE {hist.written[i] : i \in 1..Len(hist.written)}
         \ (DeliveredCommands \cup hist.slot_failed)

IsPrefix(a, b) == Len(a) <= Len(b) /\ SubSeq(b, 1, Len(a)) = a

\* C1: at most one command is in flight; every command written before the
\* last one written has had its CommandResponse delivered to its reply slot
\* before the next one was written; and while a command is in flight no
\* command leaves the command queue or is written to the socket.
C1_Serialization ==
  /\ [](/\ Cardinality(InFlight) <= 1
        /\ InFlight = IF current_command = 0 THEN {} ELSE {current_command}
        /\ \A i \in 1..(Len(hist.written) - 1) :
             hist.written[i] \in DeliveredCommands)
  /\ [][current_command # 0 =>
          /\ hist.written' = hist.written
          /\ pc' # "done" => IsPrefix(cmdq, cmdq')]_vars

\* a second command was written after the first was answered, and a third
\* party is not needed: command 2 is in flight, command 1 has its reply
C1_Witness ==
  /\ hist.written = <<1, 2>>
  /\ current_command = 2
  /\ result[1].kind = "Some"

\* C8: the commands are written in the order in which they entered the
\* queue, and the i-th CommandResponse delivered went to the i-th command
\* written, which got it as the value of its send.
C8_CommandOrder ==
  /\ IsPrefix(hist.written, hist.accepted)
  /\ Len(hist.delivered) <= Len(hist.written)
  /\ \A i \in 1..Len(hist.delivered) :
       /\ hist.delivered[i].cmd = hist.written[i]
       /\ result[hist.written[i]].kind = "Some"

C8_Witness ==
  /\ Len(hist.delivered) = 2
  /\ hist.accepted = <<1, 2>>

\* C9: a CommandResponse emitted while no command is in flight is dropped:
\* the loop goes on, no caller gets a value, the buffer of the classifier is
\* empty afterwards, and no packet of it is part of a reply delivered later.
C9_UnsolicitedDiscarded ==
  /\ [](\A i \in 1..Len(hist.delivered) :
          \A k \in 1..Len(hist.delivered[i].meta) :
            ~hist.delivered[i].meta[k].dropped)
  /\ [][hist.discards' # hist.discards =>
          /\ pc' = "loop"
          /\ current_command' = 0
          /\ response_builder'.response = <<>>
          /\ result' = result
          /\ hist.delivered' = hist.delivered]_vars

\* a response was dropped and a later command got its own reply
C9_Witness ==
  \E i \in 1..Len(hist.delivered) :
    /\ hist.delivered[i].after > 0
    /\ Len(hist.delivered[i].meta) = 1

\* C5: once the transport is down the loop exits and no send is left
\* waiting, whether its command was in flight, queued or sent afterwards;
\* and nothing is written to the socket after the loop has exited.
C5_NoSendHangs ==
  /\ (transport = "down") ~> (pc = "done" /\ \A c \in Callers : cst[c] # "waiting")
  /\ [](pc = "done" => \A c \in Callers : cst[c] # "waiting")
  /\ [][pc = "done" => pc' = "done" /\ hist.written' = hist.written]_vars

\* the loop has exited with command 1 in flight and command 2 still queued,
\* and both sends have returned
C5_Witness ==
  /\ pc = "done"
  /\ hist.term_command = 1
  /\ hist.accepted = <<1, 2>>
  /\ hist.written = <<1>>
  /\ cst = [c \in Callers |-> "done"]


\* the EventList tag the classifier looks at (the first one) has value v
Carries(pkt, v) ==
  LET event_list == find_tag(pkt, EventList_key)
  IN event_list # <<>> /\ eq_ignore_ascii_case(event_list[1], v)

\* packets i..j of the trace, in the order of their arrival
TracePackets(i, j) == [k \in 1..(j - i + 1) |-> cls.trace[i + k - 1].pkt]

\* packets i..j of the trace are a reply sequence as C2 describes it: no
\* sequence is open before packet i, which is not event-shaped and carries
\* EventList: start; the packets between carry no EventList: Complete;
\* packet j carries EventList: Complete
ReplySequence(i, j) ==
  /\ ~cls.trace[i].open
  /\ ~EventShaped(cls.trace[i].pkt)
  /\ Carries(cls.trace[i].pkt, start_value)
  /\ \A k \in (i + 1)..(j - 1) : ~Carries(cls.trace[k].pkt, Complete_value)
  /\ Carries(cls.trace[j].pkt, Complete_value)

\* C2: for packets P1..Pn as above, add_line returns nothing for the lines of
\* P1..Pn-1 and for the tag lines of Pn, no Event for any of P2..Pn, and at
\* the blank line of Pn one CommandResponse whose list is P1..Pn in order.
\* "Carries" is the lookup of the classifier: the first EventList tag of the
\* packet decides.
C2_Aggregation ==
  /\ cls.quiet
  /\ \A i \in 1..Len(cls.trace) : \A j \in (i + 1)..Len(cls.trace) :
       ReplySequence(i, j) =>
         /\ \A k \in i..(j - 1) : cls.trace[k].out = NoResponse
         /\ cls.trace[j].out = CommandResponseOf(TracePackets(i, j))

\* a sequence of three packets, the second event-shaped, was aggregated
C2_Witness ==
  /\ Len(cls.trace) = 3
  /\ ReplySequence(1, 3)
  /\ EventShaped(cls.trace[2].pkt)
  /\ cls.trace[3].out.kind = "CommandResponse"
  /\ Len(cls.trace[3].out.pkts) = 3


\* some EventList tag of the packet, the first or a later one, has value v
CarriesAny(pkt, v) ==
  \E t \in 1..Len(pkt) :
    /\ eq_ignore_ascii_case(pkt[t].key, EventList_key)
    /\ eq_ignore_ascii_case(pkt[t].value, v)

ReplySequenceAny(i, j) ==
  /\ ~cls.trace[i].open
  /\ ~EventShaped(cls.trace[i].pkt)
  /\ CarriesAny(cls.trace[i].pkt, start_value)
  /\ \A k \in (i + 1)..(j - 1) : ~CarriesAny(cls.trace[k].pkt, Complete_value)
  /\ CarriesAny(cls.trace[j].pkt, Complete_value)

\* C2 as stated, a packet carrying EventList: v when any of its tags is
\* EventList: v
C2_AggregationAnyTag ==
  /\ cls.quiet
  /\ \A i \in 1..Len(cls.trace) : \A j \in (i + 1)..Len(cls.trace) :
       ReplySequenceAny(i, j) =>
         /\ \A k \in i..(j - 1) : cls.trace[k].out = NoResponse
         /\ cls.trace[j].out = CommandResponseOf(TracePackets(i, j))

\* the step completes a packet that is event-shaped while no sequence is open
CompletesEvent ==
  /\ ~response_builder.in_response_sequence
  /\ EventShaped(response_builder.in_packet)
  /\ response_builder'.in_packet = <<>>

\* no reply delivered holds an event-shaped packet that was completed while
\* no sequence was open
C3_NeverInReply ==
  \A i \in 1..Len(hist.delivered) :
    \A k \in 1..Len(hist.delivered[i].meta) :
      ~hist.delivered[i].meta[k].event

\* such a packet is handed to publish_event, and to no caller
C3_Published ==
  [][CompletesEvent =>
       /\ hist.published' = hist.published + 1
       /\ IF receivers = {} THEN pc' = "loop"
          ELSE pc' = "pub_send" /\ pub_pkt' = <<response_builder.in_packet>>
       /\ result' = result
       /\ current_command' = current_command]_vars

\* C3: an event-shaped packet completed while no sequence is open is
\* published and is part of no reply, and when its publication is over the
\* command in flight, if any, is still in flight and the loop goes on.
C3_EventRouting ==
  /\ []C3_NeverInReply
  /\ C3_Published
  /\ [][pc = "pub_send" /\ pc' # "pub_send" /\ current_command # 0 =>
          /\ current_command' = current_command
          /\ pc' = "loop"
          /\ result' = result]_vars

\* C4: the caller whose command was in flight when the loop exited gets the
\* "no reply" outcome, None.
C4_NoReplyOnTermination ==
  LET c == hist.term_command
  IN pc = "done" /\ c # 0 /\ cst[c] = "done" => result[c] = NoReply

\* the part of C4 about partial data: the packets buffered in a sequence that
\* was still open when the loop exited are not returned
C4_NoPartialData ==
  LET c == hist.term_command
  IN pc = "done" /\ c # 0 /\ hist.term_open => result[c].pkts = <<>>

\* C6: when the reply slot of the command in flight refuses the
\* CommandResponse, current_command is cleared and the loop goes on; the
\* connection is not shut down because of it.
C6_SlotFailureRecovered ==
  /\ [][hist.slot_failed' # hist.slot_failed =>
          pc' = "loop" /\ current_command' = 0]_vars
  /\ [](hist.slot_failed # {} /\ transport = "up" /\ hist.published = 0
          => pc = "loop")

\* C7: while the loop runs a sequence is open only if a command is in
\* flight, and every packet of a reply delivered to a command was buffered
\* while that command was in flight.
C7_SequenceWithinFlight ==
  /\ pc \in {"loop", "pub_send"} /\ response_builder.in_response_sequence
       => current_command # 0
  /\ \A i \in 1..Len(hist.delivered) :
       \A k \in 1..Len(hist.delivered[i].meta) :
         hist.delivered[i].meta[k].inflight = hist.delivered[i].cmd

\* C10: whatever the subscribers do meanwhile, a call of publish_event with
\* an Event ends with the loop going on.
C10_PublishNeverStops ==
  /\ [][hist.published' # hist.published => pc' \in {"loop", "pub_send"}]_vars
  /\ [][pc = "pub_send" /\ pc' # pc => pc' = "loop"]_vars

\* the events waiting in the inbox of subscriber s, oldest first
InboxEvents(s) == SelectSeq(inbox[s], LAMBDA item : item # <<>>)

\* every subscriber is handed the events in the order in which the classifier
\* completed them
C11_PublishedInOrder ==
  \A s \in Subs :
    \A i \in 1..Len(InboxEvents(s)) : \A j \in (i + 1)..Len(InboxEvents(s)) :
      InboxEvents(s)[i][1].seq < InboxEvents(s)[j][1].seq

\* the Events handed to publish_event are those a classifier returns that is
\* fed the lines as the server sent them, whatever the callers did meanwhile
C11_CommandIndependent ==
  hist.published = hist.wire_events

\* C11: standalone events are published in the order in which their packets
\* were completed on the wire, and whether an event is published does not
\* depend on the commands in flight or queued.
C11_EventOrdering ==
  /\ C11_PublishedInOrder
  /\ C11_CommandIndependent


\* the None item, if the inbox of s holds it, is the newest item in it
MarkerIsLast(s) ==
  \A i \in 1..Len(inbox[s]) : inbox[s][i] = <<>> => i = Len(inbox[s])

\* C12: a subscriber that holds a receiver when the loop has exited receives
\* the None item if it keeps its receiver and goes on receiving, and no Event
\* is published after the None item: None is the newest item of every inbox
\* that holds it, and a subscriber that has received it is sent nothing more.
C12_EndOfStream ==
  /\ \A s \in Subs :
       (pc = "shut" /\ s \in receivers)
         ~> (s \in hist.eos \/ s \notin receivers)
  /\ [](\A s \in Subs : MarkerIsLast(s))
  /\ [](\A s \in hist.eos : s \in receivers /\ inbox[s] = <<>> /\ pc = "done")
  /\ [][pc = "done" =>
          \A s \in Subs :
            IF inbox[s] = <<>> THEN inbox'[s] = <<>>
            ELSE inbox'[s] \in {inbox[s], Tail(inbox[s]), <<>>}]_vars

\* subscriber 1 was sent an Event, the loop has exited, and the subscriber
\* has received the None item
C12_Witness ==
  /\ pc = "done"
  /\ 1 \in hist.eos
  /\ hist.published = 1
  /\ hist.wire_events = 1


\* entry i of the trace is a standalone reply: a non-empty packet that is not
\* event-shaped and has no EventList tag, completed while no sequence is open
StandaloneReply(i) ==
  /\ ~cls.trace[i].open
  /\ cls.trace[i].pkt # <<>>
  /\ ~EventShaped(cls.trace[i].pkt)
  /\ \A t \in 1..Len(cls.trace[i].pkt) :
       ~eq_ignore_ascii_case(cls.trace[i].pkt[t].key, EventList_key)

\* C13: a standalone reply makes add_line return, at its blank line and at
\* no other line, a CommandResponse whose list is that one packet; nothing of
\* it is kept for later, and an event-shaped packet that follows is returned
\* as an Event of its own.
C13_StandaloneReply ==
  /\ cls.quiet
  /\ \A i \in 1..Len(cls.trace) :
       StandaloneReply(i) =>
         /\ cls.trace[i].out = CommandResponseOf(<<cls.trace[i].pkt>>)
         /\ cls.trace[i].kept = <<>>
         /\ (i < Len(cls.trace) /\ EventShaped(cls.trace[i + 1].pkt)) =>
              cls.trace[i + 1].out = EventOf(cls.trace[i + 1].pkt)

\* a standalone reply was returned, then an event
C13_Witness ==
  /\ Len(cls.trace) = 2
  /\ StandaloneReply(1)
  /\ cls.trace[1].out.kind = "CommandResponse"
  /\ cls.trace[2].out.kind = "Event"


\* the precondition of C14 as stated: no colon in a key, no space at the
\* head of a value
KeysAndValuesAsStated(pkt) ==
  \A t \in 1..Len(pkt) :
    /\ \A i \in 1..Len(pkt[t].key) : pkt[t].key[i] # ":"
    /\ pkt[t].value # <<>> => pkt[t].value[1] # " "

\* in addition no line feed in a key or a value, no whitespace at the head
\* of a key and none at the end of a value
FitsOneLine(pkt) ==
  \A t \in 1..Len(pkt) :
    /\ \A i \in 1..Len(pkt[t].key) : pkt[t].key[i] # "\n"
    /\ \A i \in 1..Len(pkt[t].value) : pkt[t].value[i] # "\n"
    /\ pkt[t].key # <<>> => pkt[t].key[1] \notin Whitespace
    /\ pkt[t].value # <<>> => pkt[t].value[Len(pkt[t].value)] \notin Whitespace

MalformedLineFed ==
  /\ cls'.n = cls.n + 1
  /\ cls'.last[1] # <<>>
  /\ \A i \in 1..Len(cls'.last[1]) : cls'.last[1][i] # ":"

\* the text is the key or the value of a tag of a packet that was returned
InReturnedTag(text) ==
  \E i \in 1..Len(cls.trace) : \E k \in 1..Len(cls.trace[i].out.pkts) :
    \E t \in 1..Len(cls.trace[i].out.pkts[k]) :
      \/ cls.trace[i].out.pkts[k][t].key = text
      \/ cls.trace[i].out.pkts[k][t].value = text

\* C15: add_line on a non-blank line without a colon returns nothing and
\* leaves the in-progress packet, the sequence buffer and the sequence-open
\* flag as they were, and the line is no tag of any Event or CommandResponse
\* returned.
C15_MalformedDropped ==
  /\ [][MalformedLineFed =>
          /\ cls'.out = NoResponse
          /\ cls'.rb = cls.rb
          /\ cls'.trace = cls.trace]_vars
  /\ [](~InReturnedTag(NoiseLine))

\* five lines were fed, one of them without colon, among the lines of the
\* two one-tag packets of a reply sequence, which was returned afterwards
C15_Witness ==
  /\ Len(cls.trace) = 2
  /\ cls.trace[2].open
  /\ cls.trace[2].out.kind = "CommandResponse"
  /\ Len(cls.trace[1].pkt) = 1
  /\ Len(cls.trace[2].pkt) = 1
  /\ cls.n = 5


\* C16: a call of add_line that returns Event(p) leaves the sequence buffer
\* and the sequence-open flag as they are, p being the in-progress packet,
\* which is empty afterwards; the tag lines of the packet did not touch
\* buffer and flag either, so both are as they were before the packet began.
C16_EventLeavesState ==
  /\ [][cls'.n = cls.n + 1 /\ cls'.out.kind = "Event" =>
          /\ cls'.out.pkts = <<cls.rb.in_packet>>
          /\ cls'.rb.response = cls.rb.response
          /\ cls'.rb.in_response_sequence = cls.rb.in_response_sequence
          /\ cls'.rb.in_packet = <<>>
          /\ cls'.trace[Len(cls'.trace)].kept = cls.rb.response]_vars
  /\ [][cls'.n = cls.n + 1 /\ cls'.last[1] # <<>> =>
          /\ cls'.rb.response = cls.rb.response
          /\ cls'.rb.in_response_sequence = cls.rb.in_response_sequence]_vars

\* the latest call returned an Event of two tags
C16_Witness ==
  /\ cls.n = 3
  /\ cls.out.kind = "Event"
  /\ Len(cls.out.pkts[1]) = 2
  /\ cls.rb = NewBuilder


\* the actor reads a blank line while the in-progress packet has no tags:
\* a line is read (a new one, or the rest of one partly consumed), and the
\* in-progress packet is empty before and after
EmptyPacketCompleted ==
  /\ pc = "loop"
  /\ \/ nread' = nread + 1 /\ pending' = pending /\ hist'.written = hist.written
     \/ pending # <<>> /\ pending' = <<>>
  /\ response_builder.in_packet = <<>>
  /\ response_builder'.in_packet = <<>>

\* C17: a blank line read while the in-progress packet has no tags is never
\* published as an Event. With a sequence open the empty packet is appended
\* to the sequence buffer and nothing is returned to anyone. With no sequence
\* open the CommandResponse is a list of one empty packet: the waiting caller
\* of the command in flight gets it as its reply, and it is dropped when no
\* command is in flight.
C17_EmptyPacket ==
  [][EmptyPacketCompleted =>
       /\ hist'.published = hist.published
       /\ pc' # "pub_send"
       /\ inbox' = inbox
       /\ IF response_builder.in_response_sequence
            THEN /\ response_builder'.response =
                      Append(response_builder.response, <<>>)
                 /\ response_builder'.in_response_sequence
                 /\ result' = result
                 /\ current_command' = current_command
                 /\ hist'.discards = hist.discards
            ELSE /\ response_builder' = NewBuilder
                 /\ IF current_command = 0
                      THEN hist'.discards = hist.discards + 1 /\ result' = result
                      ELSE /\ current_command' = 0
                           /\ cst[current_command] = "waiting" =>
                                result'[current_command] = SomeReply(<<<<>>>>)]_vars

\* caller 1 got a list of one empty packet as the reply to its command
C17_Witness ==
  /\ result[1] = SomeReply(<<<<>>>>)
  /\ hist.delivered # <<>>
  /\ hist.delivered[1].cmd = 1


\* C18: after every call of add_line the sequence buffer is empty whenever
\* the sequence-open flag is false, and every CommandResponse returned holds
\* at least one packet.
C18_BufferEmptyWhenClosed ==
  /\ ~cls.rb.in_response_sequence => cls.rb.response = <<>>
  /\ cls.out.kind = "CommandResponse" => Len(cls.out.pkts) >= 1
  /\ \A i \in 1..Len(cls.trace) :
       /\ cls.trace[i].out.kind = "CommandResponse" =>
            Len(cls.trace[i].out.pkts) >= 1
       /\ cls.trace[i].out.kind # "None" => cls.trace[i].kept = <<>>

\* a sequence of two packets was buffered and returned, and the buffer is
\* empty again
C18_Witness ==
  /\ Len(cls.trace) = 2
  /\ cls.trace[1].kept # <<>>
  /\ cls.trace[2].out.kind = "CommandResponse"
  /\ Len(cls.trace[2].out.pkts) = 2
  /\ ~cls.rb.in_response_sequence
  /\ cls.rb.response = <<>>


\* C19: every line the server sends is passed to add_line once, whole and in
\* the order sent, however the reads interleave with the dequeue of a
\* command: a line whose first bytes a cancelled read_line had consumed is
\* passed as it was sent, and the actor's builder is at every moment the
\* builder that was fed the lines as sent.
C19_NoLineLost ==
  /\ [][pending # <<>> /\ pending' = <<>> =>
          Trim(pending[1].rest) = Trim(pending[1].sent)]_vars
  /\ [](response_builder = hist.wire_builder)


=============================================================================
